---- MODULE Spec2Model ----
(***************************************************************************)
(* Model of the AC_RL telemetry app (AC_RL.py): the two UDP endpoints, the *)
(* command processor handle_input_data, the file-backed command source    *)
(* check_input_file and the per-tick publisher acUpdate.                  *)
(***************************************************************************)
EXTENDS Integers, Sequences, FiniteSets, TLC

\* ------------------------------------------------------------------ bounds
MaxSock == 2      \* socket descriptors the process may hold at once
MaxKeys == 2      \* recognised keys present in one enumerated message
MaxQueue == 2     \* datagrams queued on one socket
StampMod == 2     \* distinct timestamps before they wrap
MaxResets == 2    \* saturation of the reset-tick history counter
Chunks == 2       \* writes a serialised document takes
MaxPkts == 3      \* datagrams the receiver counts before it prints

\* --------------------------------------------------------- program constants
DefaultTelemetryPort == 9876
DefaultInputPort == 9877
null == 0
EphemeralPort == 49152
PrintInterval == 10   \* the 1.0 s between summaries, in receive timeouts of 0.1 s

\* ------------------------------------------------------------------ values
Hosts == {"127.0.0.1", "10.0.0.2"}
DefaultHost == "127.0.0.1"
NoAddr == <<"", 0>>
SockIds == 1..MaxSock

\* A JSON value found under a port key: an integer, a string of digits, or
\* anything int() rejects (a non-numeric string, null, a list).
IntV(n) == [t |-> "int", n |-> n]
StrV(n) == [t |-> "str", n |-> n]
BadV == [t |-> "bad", n |-> 0]
AbsentPort == [t |-> "absent", n |-> 0]
AbsentStr == "<absent>"

PortVals == {StrV(9999), BadV, IntV(70000), IntV(0)}
FlagVals == {"true", "false"}

Keys == {"telemetry_udp_host", "telemetry_udp_port", "use_udp_telemetry",
         "input_udp_host", "input_udp_port", "use_input_udp", "reset"}

Absent(k) == IF k \in {"telemetry_udp_port", "input_udp_port"} THEN AbsentPort ELSE AbsentStr

\* `key in cmd`
Has(cmd, k) == cmd[k] # Absent(k)

Vals(k) ==
  IF k \in {"telemetry_udp_host", "input_udp_host"} THEN Hosts
  ELSE IF k \in {"telemetry_udp_port", "input_udp_port"} THEN PortVals
  ELSE FlagVals

EmptyMsg == [k \in Keys |-> Absent(k)]

\* The messages that carry exactly the keys K
VS(k, K) == IF k \in K THEN Vals(k) ELSE {Absent(k)}
MsgsWith(K) ==
  [telemetry_udp_host : VS("telemetry_udp_host", K),
   telemetry_udp_port : VS("telemetry_udp_port", K),
   use_udp_telemetry  : VS("use_udp_telemetry", K),
   input_udp_host     : VS("input_udp_host", K),
   input_udp_port     : VS("input_udp_port", K),
   use_input_udp      : VS("use_input_udp", K),
   reset              : VS("reset", K)]

\* The messages enumerated as inputs: every combination of at most MaxKeys keys.
Messages == UNION {MsgsWith(K) : K \in {K \in SUBSET Keys : Cardinality(K) <= MaxKeys}}

\* int(port): raises on a value that is no number
CanInt(v) == v.t \in {"int", "str"}
int(v) == v.n

\* bool(cmd.get(key))
bool(v) == v = "true"

\* ------------------------------------------------------- operating system
\* The process's socket table: the descriptors that are open, what each is
\* bound to, its mode and its receive queue; peakIn is the largest number of
\* bound sockets ever open at once and ops the socket calls of the current
\* handler, in order.
NoSockInfo == [bound |-> FALSE, addr |-> NoAddr, blocking |-> TRUE, q |-> <<>>]
NoSocks == [open |-> {}, info |-> [i \in SockIds |-> NoSockInfo], peakIn |-> 0, ops |-> <<>>]

BoundOpen(k) == {i \in k.open : k.info[i].bound}

Max2(a, b) == IF a >= b THEN a ELSE b
LowestFree(k) == CHOOSE i \in SockIds \ k.open : \A j \in SockIds \ k.open : i <= j

\* The address a socket listens on after s.bind((host, port)): for port 0 the
\* operating system picks a free port of the ephemeral range
BoundAddr(host, port) == <<host, IF port = 0 THEN EphemeralPort ELSE port>>

\* socket.socket() succeeds while descriptors are left and the socket module works
CanSocket(k, e) == ~e.sockFail /\ k.open # SockIds

\* s.bind((host, int(port))): the port must be a uint16 and the address free
CanBind(k, e, host, port) ==
  /\ port \in 0..65535
  /\ ~e.bindFail
  /\ \A i \in BoundOpen(k) : k.info[i].addr # <<host, port>>

\* _create_udp_socket: the new handle, or null on any failure (the half-made
\* socket is dropped)
_create_udp_socket(k, e, bind, host, port, blocking) ==
  IF CanSocket(k, e) /\ (bind => CanBind(k, e, host, port))
  THEN LET i == LowestFree(k)
           k1 == [k EXCEPT !.open = @ \cup {i},
                           !.info[i] = [bound |-> bind,
                                        addr |-> IF bind THEN BoundAddr(host, port) ELSE NoAddr,
                                        blocking |-> blocking,
                                        q |-> <<>>],
                           !.ops = Append(@, <<"open", i>>)]
       IN [k |-> [k1 EXCEPT !.peakIn = Max2(@, Cardinality(BoundOpen(k1)))], s |-> i]
  ELSE [k |-> k, s |-> null]

\* sock.close(): the descriptor is released and its queue is gone
sock_close(k, s) ==
  [k EXCEPT !.open = @ \ {s}, !.info[s] = NoSockInfo, !.ops = Append(@, <<"close", s>>)]

\* _close_socket: a no-op on a null handle
_close_socket(k, s) == IF s # null THEN sock_close(k, s) ELSE k

\* ---------------------------------------------------------- program state
\* The module-level globals of AC_RL.py.
InitProg ==
  [TELEMETRY_UDP_HOST |-> DefaultHost,
   TELEMETRY_UDP_PORT |-> DefaultTelemetryPort,
   telemetry_sock     |-> null,
   telemetry_addr     |-> <<DefaultHost, DefaultTelemetryPort>>,
   INPUT_UDP_HOST     |-> DefaultHost,
   INPUT_UDP_PORT     |-> DefaultInputPort,
   input_sock         |-> null,
   input_addr         |-> <<DefaultHost, DefaultInputPort>>]

\* (mutant) the command-in socket is created in blocking mode
acMain_BlockingInput(w, e) ==
  LET t == _create_udp_socket(w.k, e, FALSE, w.p.TELEMETRY_UDP_HOST, w.p.TELEMETRY_UDP_PORT, TRUE)
      i == _create_udp_socket(t.k, e, TRUE, w.p.INPUT_UDP_HOST, w.p.INPUT_UDP_PORT, TRUE)
  IN [w EXCEPT !.k = i.k,
               !.p = [w.p EXCEPT !.telemetry_sock = t.s,
                                 !.telemetry_addr = <<w.p.TELEMETRY_UDP_HOST, w.p.TELEMETRY_UDP_PORT>>,
                                 !.input_sock = i.s,
                                 !.input_addr = <<w.p.INPUT_UDP_HOST, w.p.INPUT_UDP_PORT>>]]

\* acMain: both sockets are created from the defaults
acMain(w, e) ==
  LET t == _create_udp_socket(w.k, e, FALSE, w.p.TELEMETRY_UDP_HOST, w.p.TELEMETRY_UDP_PORT, TRUE)
      i == _create_udp_socket(t.k, e, TRUE, w.p.INPUT_UDP_HOST, w.p.INPUT_UDP_PORT, FALSE)
  IN [w EXCEPT !.k = i.k,
               !.p = [w.p EXCEPT !.telemetry_sock = t.s,
                                 !.telemetry_addr = <<w.p.TELEMETRY_UDP_HOST, w.p.TELEMETRY_UDP_PORT>>,
                                 !.input_sock = i.s,
                                 !.input_addr = <<w.p.INPUT_UDP_HOST, w.p.INPUT_UDP_PORT>>]]

\* (mutant) the sockets are closed and the handles are left as they were
acShutdown_KeepHandles(w) ==
  [w EXCEPT !.k = _close_socket(_close_socket(w.k, w.p.telemetry_sock), w.p.input_sock)]

\* acShutdown: each handle that is set is closed and set to None
acShutdown(w) ==
  LET k1 == IF w.p.telemetry_sock # null THEN sock_close(w.k, w.p.telemetry_sock) ELSE w.k
      k2 == IF w.p.input_sock # null THEN sock_close(k1, w.p.input_sock) ELSE k1
  IN [w EXCEPT !.k = k2, !.p.telemetry_sock = null, !.p.input_sock = null]

\* ------------------------------------------------------ handle_input_data
\* cmd.get(key, default)
GetHost(cmd, k, default) == IF Has(cmd, k) THEN cmd[k] ELSE default
GetPort(cmd, k, default) == IF Has(cmd, k) THEN cmd[k] ELSE IntV(default)

\* (mutant) an exception of the host command reaches the caller
call_sendcmd_Raises(h, e, c) == [h |-> Append(h, c), raised |-> c \in e.hostFails]

\* (mutant) the configured host and port change, the send-to address does not
RetargetTelemetry_StaleAddr(w, cmd) ==
  IF Has(cmd, "telemetry_udp_host") \/ Has(cmd, "telemetry_udp_port")
  THEN LET host == GetHost(cmd, "telemetry_udp_host", w.p.TELEMETRY_UDP_HOST)
           port == GetPort(cmd, "telemetry_udp_port", w.p.TELEMETRY_UDP_PORT)
       IN IF CanInt(port)
          THEN [w EXCEPT !.p.TELEMETRY_UDP_HOST = host,
                         !.p.TELEMETRY_UDP_PORT = int(port)]
          ELSE w
  ELSE w

\* (mutant) a host the message does not carry falls back to the default host
RetargetTelemetry_DefaultHost(w, cmd) ==
  IF Has(cmd, "telemetry_udp_host") \/ Has(cmd, "telemetry_udp_port")
  THEN LET host == GetHost(cmd, "telemetry_udp_host", DefaultHost)
           port == GetPort(cmd, "telemetry_udp_port", w.p.TELEMETRY_UDP_PORT)
       IN IF CanInt(port)
          THEN [w EXCEPT !.p.TELEMETRY_UDP_HOST = host,
                         !.p.TELEMETRY_UDP_PORT = int(port),
                         !.p.telemetry_addr = <<host, int(port)>>]
          ELSE w
  ELSE w

\* "telemetry_udp_host" / "telemetry_udp_port": retarget the send-to address
RetargetTelemetry(w, cmd) ==
  IF Has(cmd, "telemetry_udp_host") \/ Has(cmd, "telemetry_udp_port")
  THEN LET host == GetHost(cmd, "telemetry_udp_host", w.p.TELEMETRY_UDP_HOST)
           port == GetPort(cmd, "telemetry_udp_port", w.p.TELEMETRY_UDP_PORT)
       IN IF CanInt(port)
          THEN [w EXCEPT !.p.TELEMETRY_UDP_HOST = host,
                         !.p.TELEMETRY_UDP_PORT = int(port),
                         !.p.telemetry_addr = <<host, int(port)>>]
          ELSE w
  ELSE w

\* "use_udp_telemetry": close and null the handle, or create it
UseUdpTelemetry(w, e, cmd) ==
  IF Has(cmd, "use_udp_telemetry")
  THEN LET use_udp == bool(cmd.use_udp_telemetry)
       IN IF ~use_udp /\ w.p.telemetry_sock # null
          THEN [w EXCEPT !.k = _close_socket(w.k, w.p.telemetry_sock),
                         !.p.telemetry_sock = null]
          ELSE IF use_udp /\ w.p.telemetry_sock = null
          THEN LET c == _create_udp_socket(w.k, e, FALSE, w.p.TELEMETRY_UDP_HOST,
                                           w.p.TELEMETRY_UDP_PORT, TRUE)
               IN [w EXCEPT !.k = c.k,
                            !.p.telemetry_sock = c.s,
                            !.p.telemetry_addr = <<w.p.TELEMETRY_UDP_HOST, w.p.TELEMETRY_UDP_PORT>>]
          ELSE w
  ELSE w

\* (mutant) the new socket is bound first and the old one is kept if that fails
RebindInput_KeepOld(w, e, cmd) ==
  IF Has(cmd, "input_udp_host") \/ Has(cmd, "input_udp_port")
  THEN LET host == GetHost(cmd, "input_udp_host", w.p.INPUT_UDP_HOST)
           port == GetPort(cmd, "input_udp_port", w.p.INPUT_UDP_PORT)
       IN IF CanInt(port)
          THEN LET c == _create_udp_socket(w.k, e, TRUE, host, int(port), FALSE)
                   w1 == [w EXCEPT !.p.INPUT_UDP_HOST = host,
                                   !.p.INPUT_UDP_PORT = int(port),
                                   !.p.input_addr = <<host, int(port)>>]
               IN IF c.s = null THEN w1
                  ELSE [w1 EXCEPT !.k = _close_socket(c.k, w.p.input_sock),
                                  !.p.input_sock = c.s]
          ELSE w
  ELSE w

\* "input_udp_host" / "input_udp_port": close the bound socket, bind a new one
RebindInput(w, e, cmd) ==
  IF Has(cmd, "input_udp_host") \/ Has(cmd, "input_udp_port")
  THEN LET host == GetHost(cmd, "input_udp_host", w.p.INPUT_UDP_HOST)
           port == GetPort(cmd, "input_udp_port", w.p.INPUT_UDP_PORT)
       IN IF CanInt(port)
          THEN LET k1 == IF w.p.input_sock # null THEN sock_close(w.k, w.p.input_sock) ELSE w.k
                   c == _create_udp_socket(k1, e, TRUE, host, int(port), FALSE)
               IN [w EXCEPT !.k = c.k,
                            !.p.INPUT_UDP_HOST = host,
                            !.p.INPUT_UDP_PORT = int(port),
                            !.p.input_addr = <<host, int(port)>>,
                            !.p.input_sock = c.s]
          ELSE w
  ELSE w

\* (mutant) enabling binds a socket whether or not one is live
UseInputUdp_Rebinds(w, e, cmd) ==
  IF Has(cmd, "use_input_udp")
  THEN LET use_in == bool(cmd.use_input_udp)
       IN IF ~use_in /\ w.p.input_sock # null
          THEN [w EXCEPT !.k = _close_socket(w.k, w.p.input_sock),
                         !.p.input_sock = null]
          ELSE IF use_in
          THEN LET c == _create_udp_socket(_close_socket(w.k, w.p.input_sock), e, TRUE,
                                           w.p.INPUT_UDP_HOST, w.p.INPUT_UDP_PORT, FALSE)
               IN [w EXCEPT !.k = c.k, !.p.input_sock = c.s]
          ELSE w
  ELSE w

\* "use_input_udp": close and null the handle, or bind it
UseInputUdp(w, e, cmd) ==
  IF Has(cmd, "use_input_udp")
  THEN LET use_in == bool(cmd.use_input_udp)
       IN IF ~use_in /\ w.p.input_sock # null
          THEN [w EXCEPT !.k = _close_socket(w.k, w.p.input_sock),
                         !.p.input_sock = null]
          ELSE IF use_in /\ w.p.input_sock = null
          THEN LET c == _create_udp_socket(w.k, e, TRUE, w.p.INPUT_UDP_HOST,
                                           w.p.INPUT_UDP_PORT, FALSE)
               IN [w EXCEPT !.k = c.k, !.p.input_sock = c.s]
          ELSE w
  ELSE w

\* call_sendcmd: the host command is invoked; what it raises is swallowed
call_sendcmd(h, e, c) == [h |-> Append(h, c), raised |-> FALSE]

\* "reset" is True: the two host commands, then the write-back to the file the
\* message came from (left pending in w.wr; the write itself is WriteTmp/Replace)
ResetCmd(w, e, cmd, path) ==
  IF cmd.reset = "true"
  THEN LET r1 == call_sendcmd(w.h, e, 68)
           r2 == IF r1.raised THEN r1 ELSE call_sendcmd(r1.h, e, 69)
       IN [w EXCEPT !.h = r2.h,
                    !.wr = IF path THEN <<[cmd EXCEPT !.reset = "false"]>> ELSE w.wr]
  ELSE w

\* (mutant) use_input_udp is applied before the command-in rebind
handle_input_data_DisableFirst(w, e, v, path) ==
  IF ~v.dict THEN w
  ELSE LET w1 == RetargetTelemetry(w, v.m)
           w2 == UseUdpTelemetry(w1, e, v.m)
           w3 == UseInputUdp(w2, e, v.m)
           w4 == RebindInput(w3, e, v.m)
       IN ResetCmd(w4, e, v.m, path)

\* handle_input_data(cmd, path): v is the decoded JSON value
handle_input_data(w, e, v, path) ==
  IF ~v.dict THEN w
  ELSE LET w1 == RetargetTelemetry(w, v.m)
           w2 == UseUdpTelemetry(w1, e, v.m)
           w3 == RebindInput(w2, e, v.m)
           w4 == UseInputUdp(w3, e, v.m)
       IN ResetCmd(w4, e, v.m, path)

\* ------------------------------------------------------------ file system
\* A file is absent (n = -1) or holds the first n of the Chunks writes that
\* serialise doc[1]; a file written in full parses back to its document.
AbsentFile == [n |-> 0 - 1, doc |-> <<>>]
FileOf(d, n) == [n |-> n, doc |-> <<d>>]
Complete(file) == file.n = Chunks
Partial(file) == file.n >= 0 /\ file.n < Chunks

\* (mutant) the document is written straight into the target
TmpOf_InPlace(tgt) == tgt

\* path + ".tmp": the temp sibling of a target
TmpOf(tgt) == IF tgt = "cmd" THEN "cmdTmp" ELSE "telTmp"

\* A decoded JSON value: an object with the recognised keys of m, or some
\* other JSON value (a list, a number)
JObj(m) == [dict |-> TRUE, m |-> m]
JOther == [dict |-> FALSE, m |-> EmptyMsg]

InitFiles == [cmd |-> AbsentFile, cmdTmp |-> AbsentFile, tel |-> AbsentFile, telTmp |-> AbsentFile]

\* open(tmp, "w"): the temp sibling is created or truncated
OpenTmp(f, tmp, d) == [f EXCEPT ![tmp] = FileOf(d, 0)]
\* json.dump(doc, f): one more write reaches the temp file
WriteChunk(f, tmp) == [f EXCEPT ![tmp].n = @ + 1]
\* os.replace(tmp, path), or os.rename(tmp, path) when that raises
Replace(f, tgt, tmp) == [f EXCEPT ![tgt] = f[tmp], ![tmp] = AbsentFile]

RECURSIVE WriteChunks(_, _, _)
WriteChunks(f, tmp, n) == IF n = 0 THEN f ELSE WriteChunks(WriteChunk(f, tmp), tmp, n - 1)

\* The whole temp-then-replace write with its outcome: "ok", "open" (the open
\* raised), "dump" (a write raised part-way), "replace" (replace and rename raised)
AtomicWrite(f, tgt, tmp, d, outcome) ==
  CASE outcome = "open" -> f
    [] outcome = "dump" -> WriteChunks(OpenTmp(f, tmp, d), tmp, Chunks - 1)
    [] outcome = "replace" -> WriteChunks(OpenTmp(f, tmp, d), tmp, Chunks)
    [] OTHER -> Replace(WriteChunks(OpenTmp(f, tmp, d), tmp, Chunks), tgt, tmp)

\* ------------------------------------------------------------ environment
\* What the surroundings decide during one handler or tick: whether bind()
\* fails (the address is held by another process), whether socket() fails,
\* which host commands raise, whether the host's ac.log raises.
Envs == [bindFail : BOOLEAN, sockFail : BOOLEAN, hostFails : {{}, {68}}, logFail : BOOLEAN]
GoodEnv == [bindFail |-> FALSE, sockFail |-> FALSE, hostFails |-> {}, logFail |-> FALSE]
EnvsCmd == {e \in Envs : e.hostFails = {} /\ ~(e.bindFail /\ e.sockFail) /\ ~e.logFail}

\* ------------------------------------------------------------------ state
VARIABLES
  prog,      \* the module globals (host, port, address and handle of both endpoints)
  socks,     \* the socket table
  hostLog,   \* host commands invoked by the current handler or tick, in order
  files,     \* command file, telemetry file and their temp siblings
  mods,      \* whether the ac_api provider modules were imported (else all are None)
  pc,        \* where the publisher is in its tick
  data,      \* check_input_file's data: <<>> (None) or the value read from the file
  wrq,       \* the temp-then-replace write in progress
  wire,      \* the telemetry datagram sent in this tick, if any
  stamp,     \* the clock the snapshot's timestamp is read from
  tk,        \* what happened in this tick (history)
  track,     \* retarget and reset history across ticks
  cls,       \* what the last message of the command processor asked for (history)
  rx         \* the receiver process (telemetry.py): its variables, output and history

vars == <<prog, socks, hostLog, files, mods, pc, data, wrq, wire, stamp, tk, track, cls, rx>>

\* The whole state as one record, and the step that makes it n
Cur == [prog |-> prog, socks |-> socks, hostLog |-> hostLog, files |-> files, mods |-> mods,
        data |-> data, wrq |-> wrq, wire |-> wire, stamp |-> stamp, tk |-> tk, track |-> track]

Becomes(n) ==
  /\ prog' = n.prog
  /\ socks' = n.socks
  /\ hostLog' = n.hostLog
  /\ files' = n.files
  /\ mods' = n.mods
  /\ data' = n.data
  /\ wrq' = n.wrq
  /\ wire' = n.wire
  /\ stamp' = n.stamp
  /\ tk' = n.tk
  /\ track' = n.track
  /\ rx' = rx

\* The part of the state handle_input_data works on, and its result put back
WorldOf(M) == [p |-> M.prog, k |-> M.socks, h |-> M.hostLog, wr |-> <<>>, hd |-> <<>>]
PutWorld(M, w) == [M EXCEPT !.prog = w.p, !.socks = w.k, !.hostLog = w.h]

\* -------------------------------------------------------- check_input_file
\* A datagram's bytes: text that json.loads accepts (and the value it gives), or not
Datagram(v) == [json |-> TRUE, v |-> v]
BadDatagram == [json |-> FALSE, v |-> JOther]

\* json.load of the command file: <<value>>, or <<>> (data = None) when the file
\* is absent, cannot be read or holds no complete JSON document
ReadInput(f, readOK) ==
  IF readOK /\ Complete(f.cmd) /\ f.cmd.doc # <<>> THEN f.cmd.doc ELSE <<>>

\* The poll of the command socket: recvfrom until it would block. The handle is
\* the global, read again on every turn; a null handle ends the loop (the
\* AttributeError is caught outside it); a datagram that does not parse is
\* skipped. w.hd lists what was handed to handle_input_data.
RECURSIVE Drain(_, _)
Drain(w, e) ==
  LET s == w.p.input_sock
  IN IF s = null THEN w
     ELSE IF w.k.info[s].q = <<>> THEN w
     ELSE LET pkt == Head(w.k.info[s].q)
              w1 == [w EXCEPT !.k.info[s].q = Tail(@)]
          IN IF ~pkt.json THEN Drain(w1, e)
             ELSE Drain([handle_input_data(w1, e, pkt.v, FALSE) EXCEPT !.hd = Append(@, pkt.v)], e)

\* ---------------------------------------------------------------- acUpdate
Groups == {"tyres", "session", "car", "inputs", "lap", "stats"}

\* The query that raises in a tick, if one does: "tyres_label" is a tyre query
\* the label loop calls directly (wear, dirty, pressure, temperatures), "tyres" a
\* tyre query only the snapshot calls (slip, heading, angular speed).
Faults == {"none", "tyres_label"} \cup Groups

\* The label loop ends normally
LabelsOK(fault) == fault # "tyres_label"

\* safe_call over the queries of one group: None for each when the module is
\* None, else their values, with None for the query that raises
safe_call(present, g, fault) ==
  IF ~present THEN "nones" ELSE IF fault = g THEN "part" ELSE "vals"

\* payload: timestamp and the six field groups
Payload(t, present, fault) ==
  [timestamp |-> t, g |-> [x \in Groups |-> safe_call(present, x, fault)]]

\* telemetry_sock.sendto(data_bytes, telemetry_addr) returns normally
SendSucceeds(addr, sendOK) == sendOK /\ addr[2] \in 1..65535

\* sent: the handle is live and the send did not raise
Sent(p, sendOK) == p.telemetry_sock # null /\ SendSucceeds(p.telemetry_addr, sendOK)

\* (mutant) the fallback file is written in every tick
NeedFallback_Always(sent) == TRUE

\* `if not sent`: the fallback file is written
NeedFallback(sent) == ~sent

\* ----------------------------------------------------------------- history
NoTk == [fresh |-> FALSE, fileReset |-> FALSE, cmdWrite |-> "none", telWrite |-> "none",
         send |-> "none", built |-> <<>>, fault |-> "none", ended |-> FALSE,
         qstart |-> <<>>, handled |-> <<>>, pre |-> <<>>, escaped |-> FALSE]

DefaultTarget == <<DefaultHost, DefaultTelemetryPort>>
NoTrack == [resets |-> 0, fresh |-> FALSE, target |-> DefaultTarget, recv |-> DefaultTarget]
NoWrite == [tgt |-> "none", doc |-> <<>>]

\* The destination a message asks for, given the one in force
AskedTarget(addr, v) ==
  IF v.dict /\ (Has(v.m, "telemetry_udp_host") \/ Has(v.m, "telemetry_udp_port"))
            /\ CanInt(GetPort(v.m, "telemetry_udp_port", addr[2]))
  THEN <<GetHost(v.m, "telemetry_udp_host", addr[1]), int(GetPort(v.m, "telemetry_udp_port", addr[2]))>>
  ELSE addr

RECURSIVE AskedTargets(_, _)
AskedTargets(addr, vs) ==
  IF vs = <<>> THEN addr ELSE AskedTargets(AskedTarget(addr, Head(vs)), Tail(vs))

Inc(n) == IF n < MaxResets THEN n + 1 ELSE n

\* ------------------------------------------------------- steps of one tick
\* acUpdate begins: check_input_file locates and reads the command file
ReadStep(M, readOK) ==
  [M EXCEPT !.data = ReadInput(M.files, readOK),
            !.tk = [NoTk EXCEPT !.fresh = M.track.fresh /\ ReadInput(M.files, readOK) # <<>>],
            !.track.fresh = @ /\ ReadInput(M.files, readOK) = <<>>,
            !.hostLog = <<>>,
            !.socks.ops = <<>>,
            !.wire = <<>>,
            !.stamp = (@ + 1) % StampMod]

\* handle_input_data(data, path) when data is a dict, up to the write-back
HandleStep(M, e) ==
  LET v == IF M.data = <<>> THEN JOther ELSE M.data[1]
      w == handle_input_data(WorldOf(M), e, v, TRUE)
  IN [PutWorld(M, w) EXCEPT
        !.wrq = IF w.wr = <<>> THEN NoWrite ELSE [tgt |-> "cmd", doc |-> <<JObj(w.wr[1])>>],
        !.tk.fileReset = v.dict /\ v.m.reset = "true",
        !.track.resets = IF v.dict /\ v.m.reset = "true" THEN Inc(@) ELSE @,
        !.track.target = AskedTarget(@, v),
        !.track.recv = IF M.tk.fresh THEN AskedTarget(@, v) ELSE @]

\* How a write ended is noted in the tick's history
NoteWrite(M, res) ==
  [M EXCEPT !.wrq = NoWrite,
            !.tk.cmdWrite = IF M.wrq.tgt = "cmd" THEN res ELSE @,
            !.tk.telWrite = IF M.wrq.tgt = "tel" THEN res ELSE @,
            !.tk.ended = M.wrq.tgt = "tel"]

\* The pending temp-then-replace write, start to end, with its outcome
WriteStep(M, outcome) ==
  IF M.wrq.tgt = "none" THEN M
  ELSE NoteWrite([M EXCEPT !.files = AtomicWrite(@, M.wrq.tgt, TmpOf(M.wrq.tgt), M.wrq.doc[1], outcome)],
                 IF outcome = "ok" THEN "ok" ELSE "fail")

\* The poll of the command socket, to the end of check_input_file
DrainStep(M, e) ==
  LET w == Drain(WorldOf(M), e)
  IN [PutWorld(M, w) EXCEPT
        !.tk.qstart = IF M.prog.input_sock = null THEN <<>>
                      ELSE M.socks.info[M.prog.input_sock].q,
        !.tk.handled = w.hd,
        !.tk.pre = <<[addr |-> M.prog.telemetry_addr, on |-> M.prog.telemetry_sock # null]>>,
        !.track.target = AskedTargets(@, w.hd),
        !.track.recv = AskedTargets(@, w.hd)]

\* (mutant) a send that raises sets the telemetry handle to None
PublishStep_DropsHandle(M, fault, sendOK) ==
  LET snap == Payload(M.stamp, M.mods, fault)
      sent == Sent(M.prog, sendOK)
  IN IF ~M.mods \/ ~LabelsOK(fault)
     THEN [M EXCEPT !.tk.fault = fault, !.tk.ended = TRUE]
     ELSE [M EXCEPT !.tk.fault = fault,
                    !.tk.built = <<snap>>,
                    !.tk.send = IF M.prog.telemetry_sock = null THEN "none"
                                ELSE IF sent THEN "ok" ELSE "raised",
                    !.tk.ended = ~NeedFallback(sent),
                    !.prog.telemetry_sock = IF sent THEN @ ELSE null,
                    !.wire = IF sent THEN <<[dest |-> M.prog.telemetry_addr, snap |-> snap]>> ELSE @,
                    !.wrq = IF NeedFallback(sent) THEN [tgt |-> "tel", doc |-> <<snap>>] ELSE @]

\* The rest of acUpdate: labels, snapshot, UDP send, start of the fallback write
PublishStep(M, fault, sendOK) ==
  LET snap == Payload(M.stamp, M.mods, fault)
      sent == Sent(M.prog, sendOK)
  IN IF ~M.mods \/ ~LabelsOK(fault)
     THEN [M EXCEPT !.tk.fault = fault, !.tk.ended = TRUE]
     ELSE [M EXCEPT !.tk.fault = fault,
                    !.tk.built = <<snap>>,
                    !.tk.send = IF M.prog.telemetry_sock = null THEN "none"
                                ELSE IF sent THEN "ok" ELSE "raised",
                    !.tk.ended = ~NeedFallback(sent),
                    !.wire = IF sent THEN <<[dest |-> M.prog.telemetry_addr, snap |-> snap]>> ELSE @,
                    !.wrq = IF NeedFallback(sent) THEN [tgt |-> "tel", doc |-> <<snap>>] ELSE @]

\* One whole acUpdate
TickInputs(ES, FS, SS, CW, TW) ==
  [readOK : BOOLEAN, e : ES, fault : FS, sendOK : SS, cw : CW, tw : TW]

\* The except clauses of acUpdate call ac.log outside any try: when the label
\* loop or the fallback write raised and ac.log raises too, the exception
\* leaves acUpdate
AcLogEscapes(M, e) ==
  /\ e.logFail
  /\ \/ M.mods /\ ~LabelsOK(M.tk.fault)
     \/ M.tk.telWrite = "fail"

acUpdate(M, in) ==
  LET a == ReadStep(M, in.readOK)
      b == WriteStep(HandleStep(a, in.e), in.cw)
      c == DrainStep(b, in.e)
      d == WriteStep(PublishStep(c, in.fault, in.sendOK), in.tw)
  IN [d EXCEPT !.tk.escaped = AcLogEscapes(d, in.e)]

\* ------------------------------------------------- the receiver process
\* telemetry.py. Time is counted in receive timeouts (0.1 s); a payload is one
\* of the kinds the receiver tells apart, with its length.
PayloadKinds == {"not_utf8", "obj_inputs", "obj_no_inputs", "json_other", "text", "nonprintable"}
PayloadSizes == {1, 2}
Payloads == [kind : PayloadKinds, size : PayloadSizes]

\* What the classification of a payload prints, or the exception it raises:
\* KeyError for an object without "inputs", TypeError for JSON that is no object
\* (neither is a ValueError, so neither is caught)
Show(kind) ==
  CASE kind = "not_utf8" -> [out |-> "hexdump", raised |-> FALSE]
    [] kind = "obj_inputs" -> [out |-> "inputs", raised |-> FALSE]
    [] kind = "obj_no_inputs" -> [out |-> "none", raised |-> TRUE]
    [] kind = "json_other" -> [out |-> "none", raised |-> TRUE]
    [] kind = "text" -> [out |-> "text", raised |-> FALSE]
    [] OTHER -> [out |-> "marker", raised |-> FALSE]

Sat(n, max) == IF n > max THEN max ELSE n

\* last_print = 0.0, last_pkt = None, pkt_count = 0: measured against the epoch
\* clock the print interval has long run out. The rest is history: age is the
\* time since the start, arrived the datagrams since the last summary, firstN
\* those that arrived in the first print interval, firstPend those of them not
\* yet in a summary, firstSums the summaries that took some of them, sum and
\* shown the summary and the classification of the last turn.
RxInit ==
  [running |-> TRUE, since |-> PrintInterval, last_pkt |-> <<>>, pkt_count |-> 0,
   age |-> 0, arrived |-> 0, firstN |-> 0, firstPend |-> 0, firstSums |-> 0,
   sum |-> <<>>, shown |-> <<>>]

\* One turn of the receive loop: recvfrom gives a datagram after dt, or times
\* out; then the summary and the classification if they are due.
RxTurn(r, got, dt) ==
  LET since == Sat(r.since + dt, PrintInterval)
      age == Sat(r.age + dt, PrintInterval)
      inFirst == got # <<>> /\ age < PrintInterval
      last_pkt == IF got = <<>> THEN r.last_pkt ELSE got
      pkt_count == IF got = <<>> THEN r.pkt_count ELSE r.pkt_count + 1
      arrived == IF got = <<>> THEN r.arrived ELSE r.arrived + 1
      firstN == IF inFirst THEN r.firstN + 1 ELSE r.firstN
      firstPend == IF inFirst THEN r.firstPend + 1 ELSE r.firstPend
  IN IF last_pkt # <<>> /\ since >= PrintInterval
     THEN LET sh == Show(last_pkt[1].kind)
              nth == IF firstPend > 0 THEN Sat(r.firstSums + 1, 2) ELSE r.firstSums
          IN [running |-> ~sh.raised,
              since |-> IF sh.raised THEN since ELSE 0,
              last_pkt |-> IF sh.raised THEN last_pkt ELSE <<>>,
              pkt_count |-> IF sh.raised THEN pkt_count ELSE 0,
              age |-> age, arrived |-> 0,
              firstN |-> firstN, firstPend |-> 0, firstSums |-> nth,
              sum |-> <<[count |-> pkt_count, size |-> last_pkt[1].size,
                         arrived |-> arrived, last |-> last_pkt[1].size,
                         first |-> firstPend > 0, nth |-> nth, firstN |-> firstN]>>,
              shown |-> <<[kind |-> last_pkt[1].kind, out |-> sh.out]>>]
     ELSE [r EXCEPT !.since = since, !.age = age, !.last_pkt = last_pkt,
                    !.pkt_count = pkt_count, !.arrived = arrived,
                    !.firstN = firstN, !.firstPend = firstPend,
                    !.sum = <<>>, !.shown = <<>>]

RxLoop ==
  /\ rx.running
  /\ \/ \E d \in Payloads, dt \in {0, 1} :
          /\ rx.pkt_count < MaxPkts
          /\ rx' = RxTurn(rx, <<d>>, dt)
     \/ rx' = RxTurn(rx, <<>>, 1)
  /\ UNCHANGED <<prog, socks, hostLog, files, mods, pc, data, wrq, wire, stamp, tk, track, cls>>

\* -------------------------------------------------------------------- Init
\* The state acMain leaves: the imports done or failed, both sockets created or not
InitWith(ES, MS) ==
  \E e \in ES, m \in MS :
    LET w == acMain([p |-> InitProg, k |-> NoSocks, h |-> <<>>, wr |-> <<>>, hd |-> <<>>], e)
    IN /\ prog = w.p
       /\ socks = [w.k EXCEPT !.ops = <<>>]
       /\ hostLog = <<>>
       /\ files = InitFiles
       /\ mods = m
       /\ pc = "idle"
       /\ data = <<>>
       /\ wrq = NoWrite
       /\ wire = <<>>
       /\ stamp = 0
       /\ tk = NoTk
       /\ track = NoTrack
       /\ cls = "none"
       /\ rx = RxInit

\* ------------------------------------------------------------ the publisher
\* One acUpdate, start to end
Tick(ES, FS, SS, CW, TW) ==
  /\ pc = "idle"
  /\ \E in \in TickInputs(ES, FS, SS, CW, TW) : Becomes(acUpdate(Cur, in))
  /\ UNCHANGED <<pc, cls>>

\* ------------------------------------------------------------ surroundings
\* The history of the tick that ended is kept until something else happens
Forget ==
  IF pc = "idle" THEN tk' = NoTk /\ wire' = <<>> /\ hostLog' = <<>>
  ELSE UNCHANGED <<tk, wire, hostLog>>

\* The controller puts a new document in place of the command file
ExtWriteCmd(C) ==
  /\ \E c \in C :
       /\ c # files.cmd
       /\ files' = [files EXCEPT !.cmd = c]
  /\ track' = [track EXCEPT !.resets = 0, !.fresh = TRUE]
  /\ Forget
  /\ UNCHANGED <<prog, socks, mods, pc, data, wrq, stamp, cls, rx>>

\* A datagram arrives at a bound socket
ExtSend(D) ==
  /\ \E d \in D, i \in BoundOpen(socks) :
       /\ Len(socks.info[i].q) < MaxQueue
       /\ socks' = [socks EXCEPT !.info[i].q = Append(@, d), !.ops = <<>>]
  /\ Forget
  /\ UNCHANGED <<prog, files, mods, pc, data, wrq, stamp, track, cls, rx>>

Msg1(k, v) == [EmptyMsg EXCEPT ![k] = v]

\* ------------------------------------------------ delivery of the snapshot
\* Whole ticks; the command file and the datagrams retarget and switch the
\* telemetry transport, and the send and the fallback write may fail.
OpenOutcomes == {"ok", "open"}

FileDocs ==
  {AbsentFile, FileOf(JObj(Msg1("telemetry_udp_host", "10.0.0.2")), Chunks)}

Datagrams ==
  {Datagram(JObj(m)) : m \in
     {Msg1("telemetry_udp_host", "127.0.0.1"),
      Msg1("use_udp_telemetry", "false")}}

Init == InitWith({GoodEnv}, {TRUE})
Update == Tick({GoodEnv}, {"none"}, BOOLEAN, {"ok"}, OpenOutcomes)
WriteCmdFile == ExtWriteCmd(FileDocs)
SendDatagram == ExtSend(Datagrams)

Next ==
  \/ Update
  \/ WriteCmdFile
  \/ SendDatagram

Spec == Init /\ [][Next]_vars

\* C2 (as claimed): in a tick that reaches the delivery step the snapshot is put
\* in the fallback file if and only if the UDP send did not succeed.
C2_Original ==
  tk.built # <<>> =>
    ((tk.send # "ok") <=> (tk.telWrite = "ok" /\ files.tel = FileOf(tk.built[1], Chunks)))

\* C2 (amended): the fallback write is attempted if and only if the send did not
\* succeed; a successful send leaves the file untouched; after a failed send the
\* file holds the tick's snapshot when the write succeeds and is left as it was
\* when the write raises.
C2_FallbackState ==
  tk.built # <<>> =>
    /\ (tk.send = "ok") <=> (tk.telWrite = "none")
    /\ tk.send = "ok" => wire # <<>> /\ wire[1].snap = tk.built[1]
    /\ tk.telWrite = "ok" => files.tel = FileOf(tk.built[1], Chunks)

C2_FallbackStep ==
  files'.tel # files.tel => tk'.built # <<>> /\ tk'.send # "ok" /\ tk'.telWrite = "ok"

\* C2 (amended): in every tick that reaches the delivery step the fallback
\* write is attempted iff the send did not succeed, the file holds the snapshot
\* after a write that succeeded, and the file changes in no other step.
C2_Fallback == []C2_FallbackState /\ [][C2_FallbackStep]_vars

C2_Witness ==
  /\ tk.built # <<>>
  /\ tk.send = "raised"
  /\ tk.telWrite = "ok"
  /\ files.tel = FileOf(tk.built[1], Chunks)

\* The sampling and delivery part of acUpdate, run from the present state with
\* the send and the fallback write succeeding or failing, keeps the globals and
\* the sockets
C17_DeliveryKeeps ==
  \A fault \in Faults, sendOK \in BOOLEAN, tw \in OpenOutcomes :
    LET n == WriteStep(PublishStep(Cur, fault, sendOK), tw)
    IN n.prog = prog /\ n.socks = socks

\* A tick that hands nothing to handle_input_data (no command file, nothing
\* queued on the command socket) keeps the globals and the sockets
C17_QuietTick ==
  (stamp' # stamp /\ data' = <<>> /\ tk'.qstart = <<>>) =>
    prog' = prog /\ socks'.open = socks.open /\ socks'.info = socks.info

\* C17: between acMain and acShutdown only handle_input_data changes the
\* transport state; sampling and delivery leave hosts, ports, addresses and
\* handles as they are, also when the send or the fallback write fails.
C17_OnlyCommands == []C17_DeliveryKeeps /\ [][C17_QuietTick]_vars

C17_Witness ==
  /\ tk.ended
  /\ tk.send = "raised"
  /\ tk.telWrite = "fail"
  /\ tk.handled = <<>>
  /\ data = <<>>
  /\ prog.telemetry_sock # null

\* C8 (as claimed): once a retarget command has been received, every snapshot
\* sent goes to the destination of the last retarget command received.
C8_Original == wire # <<>> => wire[1].dest = track.recv

\* C8 (amended): every snapshot sent goes to the destination of the last
\* well-formed retarget message processed, where the command file counts each
\* time it is read again.
C8_Retarget == wire # <<>> => wire[1].dest = track.target

C8_Witness ==
  /\ wire # <<>>
  /\ wire[1].dest = <<"10.0.0.2", DefaultTelemetryPort>>
  /\ track.target = <<"10.0.0.2", DefaultTelemetryPort>>

\* ------------------------------------------------- faults in the providers
\* Whole ticks; a provider query may raise, the provider modules may be missing
\* altogether, and datagrams switch the telemetry transport.
ToggleDatagrams ==
  {Datagram(JObj(Msg1("use_udp_telemetry", v))) : v \in FlagVals}

InitFault == InitWith({GoodEnv}, BOOLEAN)
UpdateFault == Tick({GoodEnv}, Faults, BOOLEAN, {"ok"}, OpenOutcomes)
SendToggle == ExtSend(ToggleDatagrams)

NextFault ==
  \/ UpdateFault
  \/ SendToggle

SpecFault == InitFault /\ [][NextFault]_vars

\* The field group a raising query belongs to
FaultGroup(fault) == IF fault = "tyres_label" THEN "tyres" ELSE fault

\* The tick handed a snapshot to the UDP send or to the fallback write
DeliveryTried == tk.send = "ok" \/ tk.telWrite # "none"

\* C3: when a query of one field group raises during a tick, the snapshot of
\* that tick carries the values of all other groups and is delivered in that tick.
C3_Original ==
  (tk.ended /\ mods /\ tk.fault # "none") =>
    /\ tk.built # <<>>
    /\ \A g \in Groups \ {FaultGroup(tk.fault)} : tk.built[1].g[g] = "vals"
    /\ DeliveryTried

\* C4: when the provider modules are missing the tick is not aborted: a
\* snapshot with null values for their groups is built and delivered.
C4_Original ==
  (tk.ended /\ ~mods) =>
    /\ tk.built # <<>>
    /\ \A g \in Groups : tk.built[1].g[g] = "nones"
    /\ DeliveryTried

\* --------------------------------------------------- the tick step by step
\* The same tick with the file system calls as separate steps, so that the
\* controller and a reader of the files run between them.
AfterWrite(tgt) == IF tgt = "cmd" THEN "drain" ELSE "idle"

TickReadFile ==
  /\ pc = "idle"
  /\ \E readOK \in BOOLEAN : Becomes(ReadStep(Cur, readOK))
  /\ pc' = "handle"
  /\ UNCHANGED cls

TickHandleFile(ES) ==
  /\ pc = "handle"
  /\ \E e \in ES :
       LET n == HandleStep(Cur, e)
       IN Becomes(n) /\ pc' = IF n.wrq.tgt = "cmd" THEN "w_open" ELSE "drain"
  /\ UNCHANGED cls

\* The write in progress fails here: the exception is logged, nothing is rolled back
WFail ==
  /\ Becomes(NoteWrite(Cur, "fail"))
  /\ pc' = AfterWrite(wrq.tgt)

WOpen ==
  /\ pc = "w_open"
  /\ \/ /\ files' = OpenTmp(files, TmpOf(wrq.tgt), wrq.doc[1])
        /\ pc' = "w_dump"
        /\ UNCHANGED <<prog, socks, hostLog, mods, data, wrq, wire, stamp, tk, track, rx>>
     \/ WFail
  /\ UNCHANGED cls

WDump ==
  /\ pc = "w_dump"
  /\ \/ /\ files' = WriteChunk(files, TmpOf(wrq.tgt))
        /\ pc' = IF files[TmpOf(wrq.tgt)].n + 1 = Chunks THEN "w_replace" ELSE "w_dump"
        /\ UNCHANGED <<prog, socks, hostLog, mods, data, wrq, wire, stamp, tk, track, rx>>
     \/ WFail
  /\ UNCHANGED cls

WReplace ==
  /\ pc = "w_replace"
  /\ \/ /\ Becomes(NoteWrite([Cur EXCEPT !.files = Replace(@, wrq.tgt, TmpOf(wrq.tgt))], "ok"))
        /\ pc' = AfterWrite(wrq.tgt)
     \/ WFail
  /\ UNCHANGED cls

TickDrain(ES) ==
  /\ pc = "drain"
  /\ \E e \in ES : Becomes(DrainStep(Cur, e))
  /\ pc' = "publish"
  /\ UNCHANGED cls

TickPublish(FS, SS) ==
  /\ pc = "publish"
  /\ \E fault \in FS, sendOK \in SS :
       LET n == PublishStep(Cur, fault, sendOK)
       IN Becomes(n) /\ pc' = IF n.wrq.tgt = "tel" THEN "w_open" ELSE "idle"
  /\ UNCHANGED cls

\* The process dies in the middle of a write
Crash ==
  /\ pc \in {"w_open", "w_dump", "w_replace"}
  /\ pc' = "dead"
  /\ UNCHANGED <<prog, socks, hostLog, files, mods, data, wrq, wire, stamp, tk, track, cls, rx>>

\* ------------------------------------------------- reset and the two files
\* The tick step by step; the controller asks for resets through the command
\* file, host commands and file system calls may fail, the process may die.
ResetMsg == Msg1("reset", "true")
ResetDocs ==
  {AbsentFile,
   FileOf(JObj(ResetMsg), Chunks),
   FileOf(JObj([ResetMsg EXCEPT !.telemetry_udp_host = "10.0.0.2"]), Chunks)}
HostEnvs == {e \in Envs : ~e.bindFail /\ ~e.sockFail /\ ~e.logFail}

InitFile == InitWith({GoodEnv}, {TRUE})
ReadFile == TickReadFile
HandleFile == TickHandleFile(HostEnvs)
DrainFile == TickDrain({GoodEnv})
PublishFile == TickPublish({"none"}, BOOLEAN)
WriteReset == ExtWriteCmd(ResetDocs)

NextFile ==
  \/ ReadFile
  \/ HandleFile
  \/ WOpen
  \/ WDump
  \/ WReplace
  \/ DrainFile
  \/ PublishFile
  \/ WriteReset
  \/ Crash

SpecFile == InitFile /\ [][NextFile]_vars

\* The step that ends the handling of a command file that asked for a reset
ResetHandled == pc # "drain" /\ pc' = "drain" /\ tk'.fileReset

\* The document handled, with reset set to false
Acknowledged(d) == FileOf(JObj([d[1].m EXCEPT !.reset = "false"]), Chunks)

\* C5 (as claimed): a reset read from the command file invokes host commands 68
\* and 69 in that order, exactly once each, and the file is rewritten with
\* reset false.
C5_Original ==
  [][ResetHandled => hostLog' = <<68, 69>> /\ files'.cmd = Acknowledged(data')]_vars

\* C5 (amended): a reset read from the command file invokes host commands 68
\* and 69 in that order, exactly once each; the file holds the document with
\* reset false when the write-back succeeds, and is left as it was by the step
\* that fails when the write-back raises.
C5_ResetFromFile ==
  [][ResetHandled =>
       /\ hostLog' = <<68, 69>>
       /\ tk'.cmdWrite \in {"ok", "fail"}
       /\ tk'.cmdWrite = "ok" => files'.cmd = Acknowledged(data')
       /\ tk'.cmdWrite = "fail" => files'.cmd = files.cmd]_vars

C5_Witness ==
  /\ pc = "drain"
  /\ tk.fileReset
  /\ tk.cmdWrite = "ok"
  /\ hostLog = <<68, 69>>
  /\ files.cmd = FileOf(JObj(Msg1("reset", "false")), Chunks)

\* C6: a reset the controller put in the command file is triggered at most
\* once, whatever the outcome of the write-back.
C6_Original == track.resets <= 1

\* C7: neither target file is ever seen partly written: a target changes only
\* when the controller replaces it or when a fully written temp file is renamed
\* onto it, so a failure or crash before the rename leaves the previous document.
C7_NoPartial == ~Partial(files.cmd) /\ ~Partial(files.tel)

ControllerStep == pc' = pc /\ files'.cmdTmp = files.cmdTmp /\ files'.telTmp = files.telTmp

RenamedOnto(tgt) ==
  /\ pc = "w_replace"
  /\ wrq.tgt = tgt
  /\ Complete(files[TmpOf(tgt)])
  /\ files'[tgt] = FileOf(wrq.doc[1], Chunks)

C7_OnlyRename ==
  /\ files'.cmd # files.cmd => ControllerStep \/ RenamedOnto("cmd")
  /\ files'.tel # files.tel => RenamedOnto("tel")

\* C7: a reader of the command file or the telemetry file sees the complete
\* previous document or the complete new one at every point of the write, and a
\* stop before the rename leaves the previous document in place.
C7_Atomic == []C7_NoPartial /\ [][C7_OnlyRename]_vars

\* the process died after the temp file was fully written and before the
\* rename: the command file still holds the controller's document
C7_Witness ==
  /\ pc = "dead"
  /\ wrq.tgt = "cmd"
  /\ Complete(files.cmdTmp)
  /\ files.cmd = FileOf(JObj(ResetMsg), Chunks)

\* C23: the rename that clears reset replaces only the version of the command
\* file that the tick has read: a version the controller wrote between the
\* read and the rename is not overwritten with the older content.
C23_Original ==
  [][(pc = "w_replace" /\ pc' # pc /\ wrq.tgt = "cmd" /\ files'.cmd # files.cmd
      /\ Complete(files.cmd)) =>
       files.cmd.doc = data]_vars

\* ---------------------------------------------------- the command processor
\* handle_input_data on its own: every message of at most MaxKeys recognised
\* keys, in any order, with socket creation and binding succeeding or failing.
\* cls records what the message of the last step was (history).
WellFormedRebind(m) ==
  /\ Has(m, "input_udp_host") \/ Has(m, "input_udp_port")
  /\ CanInt(GetPort(m, "input_udp_port", 0))

\* the bind the message asks for cannot succeed
BindFails(p, e, m) ==
  \/ e.bindFail
  \/ e.sockFail
  \/ int(GetPort(m, "input_udp_port", p.INPUT_UDP_PORT)) \notin 0..65535

ToggleMsgs ==
  {Msg1(k, v) : k \in {"use_udp_telemetry", "use_input_udp"}, v \in FlagVals}

\* the transport is already in the state the enable/disable message asks for
Already(p, m) ==
  IF Has(m, "use_udp_telemetry")
  THEN bool(m.use_udp_telemetry) = (p.telemetry_sock # null)
  ELSE bool(m.use_input_udp) = (p.input_sock # null)

Classify(p, e, m) ==
  IF WellFormedRebind(m)
  THEN IF BindFails(p, e, m) THEN "rebind_failed"
       ELSE IF m.use_input_udp = "false" THEN "other" ELSE "rebind_bound"
  ELSE IF m \in ToggleMsgs
  THEN IF Already(p, m) THEN "already" ELSE "toggled"
  ELSE "other"

\* handle_input_data(cmd, None) on a state
Handled(M, e, m) ==
  PutWorld(M, handle_input_data(WorldOf([M EXCEPT !.socks.ops = <<>>, !.hostLog = <<>>]),
                                e, JObj(m), FALSE))

CmdFromUdp(MS, ES) ==
  /\ pc = "idle"
  /\ \E m \in MS, e \in ES :
       /\ Becomes(Handled(Cur, e, m))
       /\ cls' = Classify(prog, e, m)
  /\ UNCHANGED pc

\* check_input_file up to the poll: the command file is read and handed to
\* handle_input_data(data, path), which writes it back after a reset
CmdFromFile(ES, CW) ==
  /\ pc = "idle"
  /\ ReadInput(files, TRUE) # <<>>
  /\ \E e \in ES, cw \in CW :
       LET M0 == [Cur EXCEPT !.data = ReadInput(files, TRUE), !.socks.ops = <<>>, !.hostLog = <<>>]
           M1 == WriteStep(HandleStep(M0, e), cw)
       IN /\ Becomes([M1 EXCEPT !.data = <<>>, !.tk = NoTk])
          /\ cls' = IF M0.data[1].dict THEN Classify(prog, e, M0.data[1].m) ELSE "other"
  /\ UNCHANGED pc

CmdFileMsg == Msg1("input_udp_port", StrV(9999))
CmdFileDocs == {FileOf(JObj(CmdFileMsg), Chunks)}

InitCmd == InitWith(EnvsCmd, {TRUE})
Command == CmdFromUdp(Messages, EnvsCmd)
FileCommand == CmdFromFile(EnvsCmd, {"ok"})
WriteCommand == ExtWriteCmd(CmdFileDocs)

NextCmd ==
  \/ Command
  \/ FileCommand
  \/ WriteCommand
SpecCmd == InitCmd /\ [][NextCmd]_vars

\* the handle of the command-in endpoint is the only bound socket of the process
OnlyInputBound ==
  BoundOpen(socks) = IF prog.input_sock = null THEN {} ELSE {prog.input_sock}

\* the last socket call of the handler opened the present command-in handle
OpenedLast ==
  /\ socks.ops # <<>>
  /\ socks.ops[Len(socks.ops)] = <<"open", prog.input_sock>>

\* C1: after each command at most one live command-in socket exists; a
\* well-formed input_udp_host/port command closes the old handle before the new
\* one is opened, and when the new bind fails the endpoint has no live handle.
C1_OneLiveSocket ==
  /\ socks.peakIn <= 1
  /\ Cardinality(BoundOpen(socks)) <= 1
  /\ OnlyInputBound
  /\ cls = "rebind_failed" => prog.input_sock = null /\ BoundOpen(socks) = {}
  /\ cls = "rebind_bound" =>
       /\ prog.input_sock # null
       /\ socks.info[prog.input_sock].addr = BoundAddr(prog.INPUT_UDP_HOST, prog.INPUT_UDP_PORT)
       /\ OpenedLast

\* a rebind whose bind failed: the old handle was closed and none is live
C1_Witness ==
  /\ cls = "rebind_failed"
  /\ prog.input_sock = null
  /\ \E i \in SockIds : socks.ops = <<(<<"close", i>>)>>

\* The transport state: both handles, hosts, ports, addresses, and the sockets
Transport(M) == <<M.prog, M.socks.open, M.socks.info>>

\* C9: an enable/disable command that asks for the state the transport is
\* already in changes nothing and makes no socket call; processing the same
\* enable/disable command twice in a row gives a state that processing it once
\* gives, the very same one when socket creation fares the same both times.
C9_NoOpStep ==
  cls' = "already" => prog' = prog /\ socks'.open = socks.open /\ socks'.info = socks.info
                       /\ socks'.ops = <<>>

C9_TwiceAsOnce ==
  \A m \in ToggleMsgs, e1 \in EnvsCmd, e2 \in EnvsCmd :
    LET once == Handled(Cur, e1, m)
        twice == Handled(once, e2, m)
    IN /\ \E e \in EnvsCmd : Transport(twice) = Transport(Handled(Cur, e, m))
       /\ e2 = e1 => Transport(twice) = Transport(once)
       /\ Already(prog, m) => Transport(once) = Transport(Cur) /\ once.socks.ops = <<>>

\* C9: enabling an enabled transport or disabling a disabled one changes
\* nothing and opens or closes nothing, and processing the same enable/disable
\* command twice in a row gives the state that processing it once gives.
C9_Idempotent == []C9_TwiceAsOnce /\ [][C9_NoOpStep]_vars

C9_Witness ==
  /\ cls = "already"
  /\ socks.ops = <<>>
  /\ prog.input_sock = null

\* The messages that carry telemetry_udp_host, telemetry_udp_port, or both
RetargetMsgs ==
  UNION {MsgsWith(K) : K \in (SUBSET {"telemetry_udp_host", "telemetry_udp_port"}) \ {{}}}

\* C18: a telemetry_udp_host/port command changes the telemetry destination
\* and nothing else: no socket is closed or opened, the telemetry handle and
\* the command-in endpoint stay as they are, and a host or port the message
\* does not carry keeps its value.
C18_OnlyDestination ==
  \A m \in RetargetMsgs, e \in EnvsCmd :
    LET n == Handled(Cur, e, m)
    IN /\ n.socks.open = socks.open /\ n.socks.info = socks.info /\ n.socks.ops = <<>>
       /\ n.prog.telemetry_sock = prog.telemetry_sock
       /\ n.prog.input_sock = prog.input_sock
       /\ n.prog.INPUT_UDP_HOST = prog.INPUT_UDP_HOST
       /\ n.prog.INPUT_UDP_PORT = prog.INPUT_UDP_PORT
       /\ n.prog.input_addr = prog.input_addr
       /\ ~Has(m, "telemetry_udp_host") => n.prog.TELEMETRY_UDP_HOST = prog.TELEMETRY_UDP_HOST
       /\ ~Has(m, "telemetry_udp_port") => n.prog.TELEMETRY_UDP_PORT = prog.TELEMETRY_UDP_PORT
       /\ n.prog.telemetry_addr = <<n.prog.TELEMETRY_UDP_HOST, n.prog.TELEMETRY_UDP_PORT>>

C18_Witness ==
  /\ cls = "other"
  /\ prog.telemetry_addr = <<"10.0.0.2", 9999>>
  /\ prog.telemetry_sock # null
  /\ prog.input_addr = <<DefaultHost, DefaultInputPort>>
  /\ prog.input_sock # null
  /\ socks.ops = <<>>

\* C19: after any sequence of commands the configured telemetry port and the
\* configured command-in port are integers in 0..65535.
C19_Original ==
  /\ prog.TELEMETRY_UDP_PORT \in 0..65535
  /\ prog.INPUT_UDP_PORT \in 0..65535

\* C21: once use_input_udp = false has disabled the command transport, the
\* command-in handle stays null and no socket is opened by any command that
\* does not carry use_input_udp = true; an input_udp_host/port command only
\* changes the configured address.
C21_Original ==
  \A m \in Messages, e \in EnvsCmd :
    m.use_input_udp # "true" =>
      LET off == Handled(Cur, e, Msg1("use_input_udp", "false"))
          n == Handled(off, e, m)
      IN /\ off.prog.input_sock = null
         /\ n.prog.input_sock = null
         /\ \A i \in 1..Len(n.socks.ops) :
              n.socks.ops[i][1] = "open" => n.socks.ops[i][2] = n.prog.telemetry_sock

\* C25: the keys of a message are applied in the order telemetry target,
\* use_udp_telemetry, command-in rebind, use_input_udp, reset: whatever else a
\* message carries, with use_input_udp = false it leaves the command-in
\* handle null and no bound socket open, and with use_udp_telemetry = false it
\* leaves the telemetry handle null.
C25_FixedOrder ==
  \A m \in Messages, e \in EnvsCmd :
    LET n == Handled(Cur, e, m)
    IN /\ m.use_input_udp = "false" => n.prog.input_sock = null /\ BoundOpen(n.socks) = {}
       /\ m.use_udp_telemetry = "false" => n.prog.telemetry_sock = null

C25_Witness ==
  /\ cls = "other"
  /\ prog.input_sock = null
  /\ prog.INPUT_UDP_PORT = 9999
  /\ Len(socks.ops) = 3
  /\ socks.ops[2][1] = "open"
  /\ socks.ops[3] = <<"close", socks.ops[2][2]>>

\* C24: a live command-in handle is a socket bound to the configured
\* (INPUT_UDP_HOST, INPUT_UDP_PORT), which is also input_addr: the configured
\* address is the address the live socket listens on.
C24_Original ==
  prog.input_sock # null =>
    /\ socks.info[prog.input_sock].bound
    /\ socks.info[prog.input_sock].addr = <<prog.INPUT_UDP_HOST, prog.INPUT_UDP_PORT>>
    /\ prog.input_addr = <<prog.INPUT_UDP_HOST, prog.INPUT_UDP_PORT>>

\* ------------------------------------------------- the poll of the socket
\* Whole ticks; datagrams of every kind queue up on the command-in socket
\* (malformed, not an object, a rebind, a disable, a reset), binds may fail,
\* and the command file enables the endpoint again or names its port.
DrainDatagrams ==
  {BadDatagram, Datagram(JOther)} \cup
  {Datagram(JObj(m)) : m \in {Msg1("input_udp_port", StrV(9999)),
                               Msg1("use_input_udp", "false"),
                               ResetMsg}}

EnableDocs == {AbsentFile, FileOf(JObj(Msg1("use_input_udp", "true")), Chunks)}
BindEnvs == {e \in Envs : ~e.sockFail /\ e.hostFails = {} /\ ~e.logFail}

InitDrain == InitWith({GoodEnv}, {TRUE})
UpdateDrain == Tick(BindEnvs, {"none"}, {TRUE}, {"ok"}, {"ok"})
SendCommand == ExtSend(DrainDatagrams)
WriteEnable == ExtWriteCmd(EnableDocs \cup CmdFileDocs)

NextDrain ==
  \/ UpdateDrain
  \/ SendCommand
  \/ WriteEnable

SpecDrain == InitDrain /\ [][NextDrain]_vars

IsObj(v) == v.dict
\* what json.loads gives for the datagrams that parse, in order
RECURSIVE Parsed(_)
Parsed(q) ==
  IF q = <<>> THEN <<>>
  ELSE IF Head(q).json THEN <<Head(q).v>> \o Parsed(Tail(q)) ELSE Parsed(Tail(q))

\* C10: every datagram queued when the poll starts that parses as a JSON
\* object is handed to handle_input_data in that tick, in arrival order, also
\* when an earlier datagram of the drain rebinds or disables the endpoint.
C10_Original ==
  tk.ended => SelectSeq(tk.handled, IsObj) = SelectSeq(Parsed(tk.qstart), IsObj)

\* The tick re-reads a command file that an earlier tick has read since it was
\* last written, with reset not true, and no datagram is queued for it
RereadTick ==
  /\ stamp' # stamp
  /\ data' # <<>>
  /\ ~tk'.fresh
  /\ data'[1].m.reset # "true"
  /\ prog.input_sock # null => socks.info[prog.input_sock].q = <<>>

\* C22: a tick that re-reads an unchanged command file closes and opens no
\* socket and leaves the transport state as it was.
C22_Original ==
  [][RereadTick =>
       /\ socks'.ops = <<>>
       /\ prog' = prog
       /\ socks'.open = socks.open
       /\ socks'.info = socks.info]_vars

\* ------------------------------------------------ commands before delivery
\* Whole ticks; the command file and the datagrams retarget and switch the
\* telemetry transport, and a datagram may disable the command-in endpoint.
OrderDatagrams ==
  {Datagram(JObj(m)) : m \in {Msg1("telemetry_udp_host", "10.0.0.2"),
                               Msg1("use_udp_telemetry", "false"),
                               Msg1("use_input_udp", "false")}}

OrderDocs ==
  {AbsentFile, FileOf(JObj(Msg1("use_udp_telemetry", "true")), Chunks)}

InitOrder == InitWith({GoodEnv}, {TRUE})
UpdateOrder == Tick({GoodEnv}, {"none"}, BOOLEAN, {"ok"}, {"ok"})
SendOrder == ExtSend(OrderDatagrams)
WriteOrder == ExtWriteCmd(OrderDocs)

NextOrder ==
  \/ UpdateOrder
  \/ SendOrder
  \/ WriteOrder

SpecOrder == InitOrder /\ [][NextOrder]_vars

\* whether telemetry UDP is enabled once the messages vs are applied
RECURSIVE EnabledAfter(_, _)
EnabledAfter(on, vs) ==
  IF vs = <<>> THEN on
  ELSE EnabledAfter(IF Head(vs).dict /\ Has(Head(vs).m, "use_udp_telemetry")
                    THEN bool(Head(vs).m.use_udp_telemetry) ELSE on,
                    Tail(vs))

\* C11: all commands of the tick, from the file and from the UDP queue, are
\* applied before the snapshot is delivered, so the delivery of that tick goes
\* by the destination and the enabled state they ask for.
C11_Original ==
  (tk.ended /\ tk.built # <<>>) =>
    LET vs == Parsed(tk.qstart)
        addr == AskedTargets(tk.pre[1].addr, vs)
    IN IF EnabledAfter(tk.pre[1].on, vs)
       THEN tk.send # "none" /\ (wire # <<>> => wire[1].dest = addr)
       ELSE tk.send = "none" /\ wire = <<>>

\* ------------------------------------------------------------ the receiver
InitRx == InitWith({GoodEnv}, {TRUE})
NextRx == RxLoop
SpecRx == InitRx /\ [][NextRx]_vars

\* What the stated order of the receiver prints for a payload: the hex dump
\* for bytes that are no UTF-8, the inputs of an object that has them, the raw
\* text when all of it is printable, the marker otherwise.
Expected(kind) ==
  CASE kind = "not_utf8" -> "hexdump"
    [] kind = "obj_inputs" -> "inputs"
    [] kind = "nonprintable" -> "marker"
    [] OTHER -> "text"

\* C12: for every payload the receiver prints exactly one of the four
\* classification outputs, in the stated order, and keeps looping; no payload
\* ends the loop.
C12_Original ==
  /\ rx.running
  /\ rx.shown # <<>> => rx.shown[1].out = Expected(rx.shown[1].kind)

\* C13: the datagrams that arrive within one print interval, the first one
\* after the start included, get exactly one summary, which reports their
\* number and the size of the last.
C13_Original ==
  rx.sum # <<>> =>
    /\ rx.sum[1].count = rx.sum[1].arrived
    /\ rx.sum[1].size = rx.sum[1].last
    /\ rx.sum[1].first => rx.sum[1].nth = 1 /\ rx.sum[1].count = rx.sum[1].firstN

\* ------------------------------------------------- failures of every kind
\* Whole ticks in which the file read, a provider query, the send, the
\* fallback write and the host's ac.log may fail, in every combination.
LogEnvs == {e \in Envs : ~e.bindFail /\ ~e.sockFail /\ e.hostFails = {}}

InitLog == InitWith({GoodEnv}, BOOLEAN)
UpdateLog == Tick(LogEnvs, Faults, BOOLEAN, {"ok"}, OpenOutcomes)
NextLog == UpdateLog
SpecLog == InitLog /\ [][NextLog]_vars

\* C14: no exception escapes acUpdate, whatever fails: the command file, the
\* poll, the sampling, the labels, the send, the fallback write, file_log and
\* the host's ac.log.
C14_Original == ~tk.escaped

\* ------------------------------------------------------ a malformed port
\* The message without the key k
Without(m, k) == [m EXCEPT ![k] = Absent(k)]

\* The port keys of a message whose value int() rejects
BadPortKeys(m) == {k \in {"telemetry_udp_port", "input_udp_port"} : Has(m, k) /\ ~CanInt(m[k])}

\* C15: a command with a non-numeric telemetry_udp_port or input_udp_port is
\* processed as the same command without that key: nothing is closed or opened
\* because of it and every other key of the message, the host sent alongside
\* it included, takes effect.
C15_Original ==
  \A m \in Messages, e \in EnvsCmd :
    \A k \in BadPortKeys(m) :
      LET with == Handled(Cur, e, m)
          without == Handled(Cur, e, Without(m, k))
      IN Transport(with) = Transport(without) /\ with.socks.ops = without.socks.ops

\* ---------------------------------------------------------------- shutdown
\* Commands of one key each, then acShutdown, which the host may call again.
\* pc = "down" once acShutdown has run; cls = "shutdown" after each run.
InitShut == InitWith(EnvsCmd, {TRUE})
CommandShut == CmdFromUdp(UNION {MsgsWith({k}) : k \in Keys \ {"reset"}}, EnvsCmd)

Shutdown ==
  /\ pc \in {"idle", "down"}
  /\ Becomes(PutWorld(Cur, acShutdown(WorldOf([Cur EXCEPT !.socks.ops = <<>>, !.hostLog = <<>>]))))
  /\ pc' = "down"
  /\ cls' = "shutdown"

NextShut ==
  \/ CommandShut
  \/ Shutdown
SpecShut == InitShut /\ [][NextShut]_vars

\* how many times the socket i was closed by the last operation
Closes(ops, i) == Cardinality({n \in 1..Len(ops) : ops[n] = <<"close", i>>})

C16_ShutdownStep ==
  cls' = "shutdown" =>
    /\ prog'.telemetry_sock = null /\ prog'.input_sock = null
    /\ socks'.open = {}
    /\ \A i \in SockIds : Closes(socks'.ops, i) = IF i \in socks.open THEN 1 ELSE 0
    /\ Len(socks'.ops) = Cardinality(socks.open)
    /\ pc = "down" => socks'.ops = <<>>

C16_NullNoOp == _close_socket(socks, null) = socks

\* C16: acShutdown leaves both handles null and closes every live socket
\* exactly once; it closes nothing when run again or for an endpoint a command
\* disabled before; _close_socket on a null handle does nothing.
C16_ClosedOnce == []C16_NullNoOp /\ [][C16_ShutdownStep]_vars

C16_Witness ==
  /\ cls = "shutdown"
  /\ Len(socks.ops) = 2
  /\ socks.open = {}

\* ------------------------------------------------ the poll, turn by turn
\* The loop of check_input_file with each recvfrom as a step of its own.
\* pc = "poll" while the loop runs. Datagrams arrive and the command file is
\* written between ticks; binds may fail.
BeginPoll ==
  /\ pc = "idle"
  /\ \E readOK \in BOOLEAN, e \in BindEnvs :
       Becomes(WriteStep(HandleStep(ReadStep(Cur, readOK), e), "ok"))
  /\ pc' = "poll"
  /\ UNCHANGED cls

\* recvfrom returns a datagram: it is parsed and handed to handle_input_data,
\* or skipped when it does not parse
PollTurn ==
  /\ pc = "poll"
  /\ prog.input_sock # null
  /\ socks.info[prog.input_sock].q # <<>>
  /\ \E e \in BindEnvs :
       LET s == prog.input_sock
           pkt == Head(socks.info[s].q)
           M1 == [Cur EXCEPT !.socks.info[s].q = Tail(@)]
       IN Becomes(IF pkt.json
                  THEN PutWorld(M1, handle_input_data(WorldOf(M1), e, pkt.v, FALSE))
                  ELSE M1)
  /\ UNCHANGED <<pc, cls>>

\* The loop ends: the handle is None, or recvfrom on the empty non-blocking
\* socket raises BlockingIOError (on a blocking socket it would wait); the rest
\* of acUpdate follows
PollEnd ==
  /\ pc = "poll"
  /\ IF prog.input_sock = null THEN TRUE
     ELSE /\ socks.info[prog.input_sock].q = <<>>
          /\ ~socks.info[prog.input_sock].blocking
  /\ Becomes(WriteStep(PublishStep(Cur, "none", TRUE), "ok"))
  /\ pc' = "idle"
  /\ UNCHANGED cls

SendPoll == pc = "idle" /\ ExtSend(DrainDatagrams)
WritePoll == pc = "idle" /\ ExtWriteCmd(EnableDocs)

InitPoll == InitWith({GoodEnv}, {TRUE})
NextPoll ==
  \/ BeginPoll
  \/ PollTurn
  \/ PollEnd
  \/ SendPoll
  \/ WritePoll
SpecPoll == InitPoll /\ [][NextPoll]_vars /\ WF_vars(PollTurn) /\ WF_vars(PollEnd)

\* a live command-in handle is a socket in non-blocking mode
C20_NonBlocking ==
  prog.input_sock # null =>
    prog.input_sock \in socks.open /\ ~socks.info[prog.input_sock].blocking

\* C20: the poll never blocks the tick: a live command-in handle is always
\* non-blocking, and the loop that drains it ends in every tick, also when a
\* datagram it processes rebinds the endpoint or sets the handle to null.
C20_NeverBlocks == []C20_NonBlocking /\ (pc = "poll" ~> pc = "idle")

C20_Witness ==
  /\ pc = "idle"
  /\ stamp # 0
  /\ prog.input_sock # null
  /\ prog.INPUT_UDP_PORT = 9999
  /\ socks.info[prog.input_sock].q = <<>>
====
